---- MODULE Spec2Model ----
(***************************************************************************)
(* A model of the ingestion-to-decision pipeline of the repository:        *)
(*   - modules/data_fetcher.py    DataFetcher (quota counters + fetches)   *)
(*   - modules/online_learning.py OnlineLearner (streaming model + drift)  *)
(*   - modules/signal_generator.py SignalGenerator.generate_signals        *)
(*   - modules/risk_manager.py    RiskManager.calculate_kelly_position     *)
(* Times are whole seconds.  Probabilities and ratios are rationals n/d    *)
(* kept as integers over a named scale.                                    *)
(***************************************************************************)
EXTENDS Integers, Sequences, FiniteSets, TLC

VARIABLES
    \* ---- DataFetcher -------------------------------------------------
    api_usage,      \* self.api_usage: provider -> [limit, remaining, reset_time]
    lock,           \* self.lock: "free" or the thread that holds it
    now,            \* the wall clock read by time.time() / datetime.now()
    pc,             \* position of each fetcher thread
    api_name,       \* the provider of the fetch a thread is running
    tmp,            \* the value loaded by `remaining -= 1` before it is stored
    reset_local,    \* the local `reset_time` of _update_api_counter
    response,       \* what requests.get returned to the thread
    result,         \* what the thread's last fetch returned: "df" or "None"
    error,          \* the exception the last fetch caught and logged
    registered,     \* whether the thread's fetch has run _update_api_counter
    calls,          \* completed _update_api_counter calls per provider
    requests,       \* network requests issued per provider
    \* ---- OnlineLearner -----------------------------------------------
    model,          \* self.model: the streaming model [gen, updates]
    base_model,     \* self.base_model: the object joblib.load returned
    drift_detector, \* self.drift_detector: [n, drift_detected]
    last_train_time,\* self.last_train_time
    db,             \* timestamps of the commodity's rows in cleaned_data
    lpc,            \* position of each process_new_data call
    new_data,       \* the rows the call fetched, in timestamp order
    idx,            \* the row the update loop is at
    predictions,    \* the model state _hybrid_predict read, once computed
    warned,         \* the drift warning was logged by _predict_and_learn
    lresult,        \* what the last process_new_data call returned
    lerror,         \* the step whose exception the call caught and logged
    drifted_files,  \* models dumped to drifted_model_*.pkl
    residual,       \* the error the drift detector was last given
    learned,        \* the rows that have been passed to learn_one so far
    online_file,    \* the model last dumped to online_model_*.pkl
    \* ---- SignalGenerator / RiskManager -------------------------------
    signal_inputs,  \* what generate_signals reads: data, prediction, volatility
    signal_data,    \* the dict generate_signals returned
    signal_pc,      \* "ready" before the generate_signals call, "returned" after
    kelly_args,     \* the arguments of the calculate_kelly_position call
    kelly_position, \* the value that call returned
    kelly_pc,       \* "ready" before the call, "returned" after
    news_args,      \* news_based_risk_adjustment: the position and the lookups
    news_result,    \* the size that call returned
    news_pc,        \* "ready" before the call, "returned" after
    risk_args,      \* calculate_total_risk: what its sub-calculations meet
    risk_report,    \* the dict that call returned, or that it raised
    risk_pc,        \* "ready" before the call, "returned" after
    atr_table,      \* calculate_atr_stop_loss: the bars of cleaned_data
    atr_stops,      \* the pair of stops that call returned
    atr_pc,         \* "ready" before the call, "returned" after
    pred_args,      \* analyze_user_prediction: its arguments and the row it reads
    pred_analysis,  \* the dict that call returned
    pred_pc,        \* "ready" before the call, "returned" after
    series,         \* the rows of cleaned_data load_historical_data reads
    resampled,      \* the frame one resampling returns
    again,          \* the frame resampling that frame returns
    resample_pc,    \* "ready", "once", "twice"
    \* ---- MainWindow --------------------------------------------------
    main_alive,     \* the window exists: destroy() has not run
    main_pc,        \* "idle", or "finally" inside start_update_cycle
    main_timers,    \* pending after() callbacks on start_update_cycle
    main_status,    \* text of status_label
    main_labels,    \* the time.time() the update_* methods last showed
    logger_open,    \* logger.shutdown() has not run
    \* ---- TrainingWindow ----------------------------------------------
    tw_alive,       \* the window exists
    running,        \* self.running
    tw_pc,          \* "idle", or "after" inside start_update_cycle
    tw_timers,      \* pending after() callbacks on start_update_cycle
    queue,          \* self.queue: the kinds of the items in it
    progress,       \* self.progress['value']
    tw_status,      \* text of self.status
    train_btn,      \* state of self.train_btn
    train_pc,       \* where the start_training thread is
    backtest_pc     \* where the run_backtest thread is

fetcherVars == <<api_usage, lock, pc, api_name, tmp, reset_local, response,
                 result, error, registered, calls, requests>>

learnerVars == <<model, base_model, drift_detector, last_train_time, db, lpc,
                 new_data, idx, predictions, warned, lresult, lerror,
                 drifted_files, online_file, residual, learned>>

decisionVars == <<signal_inputs, signal_data, signal_pc, kelly_args,
                  kelly_position, kelly_pc>>

newsVars == <<news_args, news_result, news_pc>>
totalRiskVars == <<risk_args, risk_report, risk_pc>>
atrVars == <<atr_table, atr_stops, atr_pc>>
predictionVars == <<pred_args, pred_analysis, pred_pc>>
riskVars == <<newsVars, totalRiskVars, atrVars, predictionVars>>

\* The state of the components added after the decision functions.
mainVars == <<main_alive, main_pc, main_timers, main_status, main_labels,
              logger_open>>
trainingVars == <<tw_alive, running, tw_pc, tw_timers, queue, progress,
                  tw_status, train_btn, train_pc, backtest_pc>>
windowVars == <<mainVars, trainingVars>>
resampleVars == <<series, resampled, again, resample_pc>>
otherVars == <<riskVars, windowVars, resampleVars>>

vars == <<fetcherVars, learnerVars, decisionVars, otherVars, now>>

\* What the DataFetcher's operations leave alone.
nonFetcher == <<now, learnerVars, decisionVars, otherVars>>

(***************************************************************************)
(* Bounds of the model.  The source's limits (1200, 500, 800 calls) are    *)
(* scaled down; every statement below is made for an arbitrary limit.      *)
(***************************************************************************)
LimitBinance == 3
LimitAlphavantage == 2
LimitTwelvedata == 2
MaxFetches == 4
MaxTicks == 2
MaxRows == 2
MaxUpdates == 3
MaxResets == 2
\* Grids of the numeric inputs: a probability is n/PScale, a volatility
\* n/VolScale, a band width n/BwScale, a Kelly argument n/KScale.
PScale == 20
VolScale == 200
VolMax == 8
BwScale == 20
BwMax == 4
KScale == 20
WinProbMax == 24
RatioMax == 60
BelowZero == 4
\* news adjustment: positions and scores in steps of 1/NewsScale
NewsScale == 10
PosMax == 12
MaxEvents == 8
RiskScoreScale == 10
\* items the worker threads may leave waiting in TrainingWindow.queue
MaxQueue == 2
\* resampling: minutes of data, and minutes in one bucket of the timeframe
MaxMinute == 4
BucketWidth == 2
\* the ATR period (14 in the source), scaled down
AtrPeriod == 3

RESET_WINDOW == 3600
SAVE_INTERVAL == 3600
NoTime == -1

Threads == {"t1", "t2"}
Providers == {"binance", "alphavantage", "twelvedata"}
FetchedProviders == {"binance", "alphavantage"}

Limit(p) ==
    CASE p = "binance" -> LimitBinance
      [] p = "alphavantage" -> LimitAlphavantage
      [] OTHER -> LimitTwelvedata

\* DataFetcher.__init__: every counter full, no reset scheduled, lock free.
InitApiUsage ==
    [p \in Providers |-> [limit |-> Limit(p), remaining |-> Limit(p), reset_time |-> NoTime]]

FetcherInit ==
    /\ api_usage = InitApiUsage
    /\ lock = "free"
    /\ pc = [t \in Threads |-> "idle"]
    /\ api_name = [t \in Threads |-> "-"]
    /\ tmp = [t \in Threads |-> 0]
    /\ reset_local = [t \in Threads |-> NoTime]
    /\ response = [t \in Threads |-> "-"]
    /\ result = [t \in Threads |-> "-"]
    /\ error = [t \in Threads |-> "-"]
    /\ registered = [t \in Threads |-> FALSE]
    /\ calls = [p \in Providers |-> 0]
    /\ requests = [p \in Providers |-> 0]

\* The clock: it only moves forward, by a second or by a whole window.
TicksOf(n) == (n \div RESET_WINDOW) + (n % RESET_WINDOW)

Tick ==
    /\ TicksOf(now) < MaxTicks
    /\ \E d \in {1, RESET_WINDOW} : now' = now + d
    /\ UNCHANGED <<fetcherVars, learnerVars, decisionVars, otherVars>>

(***************************************************************************)
(* DataFetcher.fetch_binance_data / fetch_alphavantage_data                *)
(***************************************************************************)
TotalRequests == requests["binance"] + requests["alphavantage"]

\* Entering the try block and calling requests.get(url, params=params).
\* The request is issued whatever the counters say: nothing reads api_usage.
MayIssueRequest(p) == TRUE

\* except Exception as e: log the error, return None.
FailWith(t, e) ==
    /\ pc' = [pc EXCEPT ![t] = "idle"]
    /\ result' = [result EXCEPT ![t] = "None"]
    /\ error' = [error EXCEPT ![t] = e]
    /\ response' = [response EXCEPT ![t] = "-"]

HttpGet(t, p) ==
    /\ pc[t] = "idle"
    /\ p \in FetchedProviders
    /\ TotalRequests < MaxFetches
    /\ MayIssueRequest(p)
    /\ api_name' = [api_name EXCEPT ![t] = p]
    /\ registered' = [registered EXCEPT ![t] = FALSE]
    /\ requests' = [requests EXCEPT ![p] = @ + 1]
    /\ pc' = [pc EXCEPT ![t] = "status"]
    /\ result' = [result EXCEPT ![t] = "-"]
    /\ error' = [error EXCEPT ![t] = "-"]
    /\ \E r \in {"raised", "non2xx", "ok", "bad_shape"} :
           response' = [response EXCEPT ![t] = r]
    /\ UNCHANGED <<api_usage, lock, tmp, reset_local, calls, nonFetcher>>

\* requests.get(url, params=params) against a provider that never answers:
\* the call is made without a timeout argument, so the thread blocks inside
\* requests.get and no statement of the fetcher runs for it afterwards.
HttpGetUnanswered(t, p) ==
    /\ pc[t] = "idle"
    /\ p \in FetchedProviders
    /\ TotalRequests < MaxFetches
    /\ MayIssueRequest(p)
    /\ api_name' = [api_name EXCEPT ![t] = p]
    /\ registered' = [registered EXCEPT ![t] = FALSE]
    /\ requests' = [requests EXCEPT ![p] = @ + 1]
    /\ pc' = [pc EXCEPT ![t] = "waiting"]
    /\ result' = [result EXCEPT ![t] = "-"]
    /\ error' = [error EXCEPT ![t] = "-"]
    /\ response' = [response EXCEPT ![t] = "no_answer"]
    /\ UNCHANGED <<api_usage, lock, tmp, reset_local, calls, nonFetcher>>


\* A fetcher that counts the call in a finally block, failed or not.
TransportFailureMutant(t) ==
    /\ pc[t] = "status"
    /\ response[t] \in {"raised", "non2xx"}
    /\ FailWith(t, "transport")
    /\ registered' = [registered EXCEPT ![t] = TRUE]
    /\ calls' = [calls EXCEPT ![api_name[t]] = @ + 1]
    /\ api_usage' = [api_usage EXCEPT ![api_name[t]].remaining =
                        IF @ - 1 <= 0 THEN api_usage[api_name[t]].limit ELSE @ - 1]
    /\ UNCHANGED <<lock, api_name, tmp, reset_local, requests, nonFetcher>>

\* requests.get raised, or response.raise_for_status() did: the except branch.
TransportFailure(t) ==
    /\ pc[t] = "status"
    /\ response[t] \in {"raised", "non2xx"}
    /\ FailWith(t, "transport")
    /\ UNCHANGED <<api_usage, lock, api_name, tmp, reset_local, registered,
                   calls, requests, nonFetcher>>

\* raise_for_status() passed: self._update_api_counter(api) is called next.
StatusOk(t) ==
    /\ pc[t] = "status"
    /\ response[t] \in {"ok", "bad_shape"}
    /\ pc' = [pc EXCEPT ![t] = "acquire"]
    /\ UNCHANGED <<api_usage, lock, api_name, tmp, reset_local, response,
                   result, error, registered, calls, requests, nonFetcher>>

(***************************************************************************)
(* DataFetcher._update_api_counter, statement by statement                 *)
(***************************************************************************)
\* A counter updated without mutual exclusion.
LockAvailableMutant == TRUE

\* `with self.lock:` lets a thread in only while no thread holds the lock.
LockAvailable == lock = "free"

Acquire(t) ==
    /\ pc[t] = "acquire"
    /\ LockAvailable
    /\ lock' = t
    /\ pc' = [pc EXCEPT ![t] = "load"]
    /\ UNCHANGED <<api_usage, api_name, tmp, reset_local, response, result,
                   error, registered, calls, requests, nonFetcher>>

\* self.api_usage[api_name]['remaining'] -= 1 : the load ...
Load(t) ==
    /\ pc[t] = "load"
    /\ tmp' = [tmp EXCEPT ![t] = api_usage[api_name[t]].remaining]
    /\ pc' = [pc EXCEPT ![t] = "store"]
    /\ UNCHANGED <<api_usage, lock, api_name, reset_local, response, result,
                   error, registered, calls, requests, nonFetcher>>

\* ... and the store of the decremented value.
Store(t) ==
    /\ pc[t] = "store"
    /\ api_usage' = [api_usage EXCEPT ![api_name[t]].remaining = tmp[t] - 1]
    /\ pc' = [pc EXCEPT ![t] = "test"]
    /\ UNCHANGED <<lock, api_name, tmp, reset_local, response, result, error,
                   registered, calls, requests, nonFetcher>>

\* An off-by-one test, `remaining < 0`.
ExhaustedMutant(p) == api_usage[p].remaining < 0

\* if remaining <= 0
Exhausted(p) == api_usage[p].remaining <= 0

\* A reload that resets the counters of every provider at once.
ReloadedEverywhereMutant(p, at) ==
    [q \in Providers |-> [api_usage[q] EXCEPT !.remaining = api_usage[q].limit,
                                              !.reset_time = at]]


\* A reload that puts one call more than the limit on the counter.
ReloadedAboveLimitMutant(p, at) ==
    [api_usage EXCEPT ![p] = [@ EXCEPT !.remaining = api_usage[p].limit + 1,
                                       !.reset_time = at]]


\* An update that schedules the reset but forgets to reload the counter.
ReloadedMutant(p, at) ==
    [api_usage EXCEPT ![p] = [@ EXCEPT !.reset_time = at]]

\* The dict.update of lines 28-29 with the reset time of line 27.
Reloaded(p, at) ==
    [api_usage EXCEPT ![p] = [@ EXCEPT !.remaining = api_usage[p].limit,
                                       !.reset_time = at]]

\* if remaining <= 0: reset_time = time.time() + 3600; update({...}); warn.
TestAndReload(t) ==
    /\ pc[t] = "test"
    /\ IF Exhausted(api_name[t])
         THEN /\ reset_local' = [reset_local EXCEPT ![t] = now + RESET_WINDOW]
              /\ api_usage' = Reloaded(api_name[t], now + RESET_WINDOW)
         ELSE UNCHANGED <<reset_local, api_usage>>
    /\ pc' = [pc EXCEPT ![t] = "release"]
    /\ UNCHANGED <<lock, api_name, tmp, response, result, error, registered,
                   calls, requests, nonFetcher>>

\* Leaving the with block: the lock is released and the call returns.
Release(t) ==
    /\ pc[t] = "release"
    /\ lock' = "free"
    /\ calls' = [calls EXCEPT ![api_name[t]] = @ + 1]
    /\ registered' = [registered EXCEPT ![t] = TRUE]
    /\ tmp' = [tmp EXCEPT ![t] = 0]
    /\ reset_local' = [reset_local EXCEPT ![t] = NoTime]
    /\ pc' = [pc EXCEPT ![t] = "parse"]
    /\ UNCHANGED <<api_usage, api_name, response, result, error, requests, nonFetcher>>

\* response.json() and the DataFrame construction succeed: the quotes return.
ParseOk(t) ==
    /\ pc[t] = "parse"
    /\ response[t] = "ok"
    /\ pc' = [pc EXCEPT ![t] = "idle"]
    /\ result' = [result EXCEPT ![t] = "df"]
    /\ response' = [response EXCEPT ![t] = "-"]
    /\ UNCHANGED <<api_usage, lock, api_name, tmp, reset_local, error,
                   registered, calls, requests, nonFetcher>>

\* The body is not the expected payload: json()/DataFrame raise, except branch.
ParseFailure(t) ==
    /\ pc[t] = "parse"
    /\ response[t] = "bad_shape"
    /\ FailWith(t, "parse")
    /\ UNCHANGED <<api_usage, lock, api_name, tmp, reset_local, registered,
                   calls, requests, nonFetcher>>

\* fetch_twelvedata_data: logs a warning and returns None.
FetchTwelvedata(t) ==
    /\ pc[t] = "idle"
    /\ api_name' = [api_name EXCEPT ![t] = "twelvedata"]
    /\ registered' = [registered EXCEPT ![t] = FALSE]
    /\ result' = [result EXCEPT ![t] = "None"]
    /\ error' = [error EXCEPT ![t] = "-"]
    /\ UNCHANGED <<api_usage, lock, pc, tmp, reset_local, response, calls,
                   requests, nonFetcher>>

FetcherNext ==
    \/ Tick
    \/ \E t \in Threads, p \in FetchedProviders : HttpGet(t, p)
    \/ \E t \in Threads : TransportFailure(t)
    \/ \E t \in Threads : StatusOk(t)
    \/ \E t \in Threads : Acquire(t)
    \/ \E t \in Threads : Load(t)
    \/ \E t \in Threads : Store(t)
    \/ \E t \in Threads : TestAndReload(t)
    \/ \E t \in Threads : Release(t)
    \/ \E t \in Threads : ParseOk(t)
    \/ \E t \in Threads : ParseFailure(t)
    \/ \E t \in Threads : FetchTwelvedata(t)

\* The statements of one fetch call, once requests.get has been entered.
FetchStep(t) ==
    \/ TransportFailure(t)
    \/ StatusOk(t)
    \/ Acquire(t)
    \/ Load(t)
    \/ Store(t)
    \/ TestAndReload(t)
    \/ Release(t)
    \/ ParseOk(t)
    \/ ParseFailure(t)

\* One caller, and providers that may answer or stay silent.
UnansweredNext ==
    \/ Tick
    \/ \E p \in FetchedProviders : HttpGet("t1", p)
    \/ \E p \in FetchedProviders : HttpGetUnanswered("t1", p)
    \/ TransportFailure("t1")
    \/ StatusOk("t1")
    \/ Acquire("t1")
    \/ Load("t1")
    \/ Store("t1")
    \/ TestAndReload("t1")
    \/ Release("t1")
    \/ ParseOk("t1")
    \/ ParseFailure("t1")
    \/ FetchTwelvedata("t1")


(***************************************************************************)
(* OnlineLearner (modules/online_learning.py)                              *)
(* The river and joblib calls are taken to do what the code uses them      *)
(* for: learn_one returns the updated model, drift_detected is the flag    *)
(* of the last update, reset() empties the detector, dump may raise.       *)
(***************************************************************************)
Cycles == {"c1", "c2"}

\* _init_online_model: a new pipeline that has learned nothing.  `gen` tells
\* one pipeline object from another.
InitOnlineModel(g) == [gen |-> g, updates |-> 0]

\* drift.ADWIN(), and the detector after reset(): an empty window.
FreshDetector == [n |-> 0, drift_detected |-> FALSE]

\* OnlineLearner.__init__
\* The detector has taken no error yet.
NoResidual == [online |-> [gen |-> -1, updates |-> 0], fused |-> FALSE]

LearnerInitWith(rows) ==
    /\ residual = NoResidual
    /\ learned = {}
    /\ model = InitOnlineModel(0)
    /\ drift_detector = FreshDetector
    /\ last_train_time = 0
    /\ base_model = "xgboost_model.pkl"
    /\ db = rows
    /\ lpc = [c \in Cycles |-> "idle"]
    /\ new_data = [c \in Cycles |-> <<>>]
    /\ idx = [c \in Cycles |-> 0]
    /\ predictions = [c \in Cycles |-> {}]
    /\ warned = [c \in Cycles |-> FALSE]
    /\ lresult = [c \in Cycles |-> "-"]
    /\ lerror = [c \in Cycles |-> "-"]
    /\ drifted_files = {}
    /\ online_file = {}

\* __init__, lines 11-22, on a table without rows for the commodity yet.
LearnerInit == LearnerInitWith({})

\* ORDER BY timestamp
RECURSIVE OrderByTimestamp(_)
OrderByTimestamp(S) ==
    IF S = {} THEN <<>>
    ELSE LET m == CHOOSE x \in S : \A y \in S : x <= y
         IN  <<m>> \o OrderByTimestamp(S \ {m})

\* _fetch_new_data: SELECT ... WHERE timestamp > last_timestamp ORDER BY timestamp
FetchedRows(last_timestamp) == OrderByTimestamp({ts \in db : ts > last_timestamp})

\* A cleaned row for the commodity is written by the cleaning stage.
InsertRow ==
    /\ now \notin db
    /\ Cardinality(db) < MaxRows
    /\ db' = db \cup {now}
    /\ UNCHANGED <<model, base_model, drift_detector, last_train_time, lpc,
                   new_data, idx, predictions, warned, lresult, lerror,
                   drifted_files, online_file, residual, learned,
                   fetcherVars, decisionVars, otherVars, now>>

\* except Exception as e: log "Online learning failed", return None.
LearnerFail(c, e) ==
    /\ lpc' = [lpc EXCEPT ![c] = "idle"]
    /\ lresult' = [lresult EXCEPT ![c] = "None"]
    /\ lerror' = [lerror EXCEPT ![c] = e]

\* process_new_data, lines 80-82: fetch the rows after last_train_time;
\* return at once when there are none.
FetchNewData(c) ==
    /\ lpc[c] = "idle"
    /\ model.updates < MaxUpdates
    /\ predictions' = [predictions EXCEPT ![c] = {}]
    /\ warned' = [warned EXCEPT ![c] = FALSE]
    /\ idx' = [idx EXCEPT ![c] = 0]
    /\ \E ok \in BOOLEAN :
        IF ~ok
          THEN /\ LearnerFail(c, "fetch")
               /\ new_data' = [new_data EXCEPT ![c] = <<>>]
          ELSE /\ new_data' = [new_data EXCEPT ![c] = FetchedRows(last_train_time)]
               /\ lerror' = [lerror EXCEPT ![c] = "-"]
               /\ IF FetchedRows(last_train_time) = <<>>
                    THEN /\ lpc' = lpc
                         /\ lresult' = [lresult EXCEPT ![c] = "None"]
                    ELSE /\ lpc' = [lpc EXCEPT ![c] = "predict"]
                         /\ lresult' = [lresult EXCEPT ![c] = "-"]
    /\ UNCHANGED <<model, base_model, drift_detector, last_train_time, db,
                   drifted_files, online_file, residual, learned,
                   fetcherVars, decisionVars, otherVars, now>>

\* predictions = self._hybrid_predict(X): reads both models, changes neither.
HybridPredict(c) ==
    /\ lpc[c] = "predict"
    /\ \E ok \in BOOLEAN :
        IF ok
          THEN /\ predictions' = [predictions EXCEPT ![c] = {model}]
               /\ idx' = [idx EXCEPT ![c] = 1]
               /\ lpc' = [lpc EXCEPT ![c] = "learn"]
               /\ UNCHANGED <<lresult, lerror>>
          ELSE /\ LearnerFail(c, "predict")
               /\ UNCHANGED <<predictions, idx>>
    /\ UNCHANGED <<model, base_model, drift_detector, last_train_time, db,
                   new_data, warned, drifted_files, online_file, residual, learned,
                   fetcherVars, decisionVars, otherVars, now>>

\* _predict_and_learn, line 47: self.model = self.model.learn_one(X, y)
LearnOne(c) ==
    /\ lpc[c] = "learn"
    /\ model' = [model EXCEPT !.updates = @ + 1]
    /\ learned' = learned \cup {new_data[c][idx[c]]}
    /\ warned' = [warned EXCEPT ![c] = FALSE]
    /\ lpc' = [lpc EXCEPT ![c] = "detect"]
    /\ UNCHANGED <<base_model, drift_detector, last_train_time, db, new_data,
                   idx, predictions, lresult, lerror, drifted_files,
                   online_file, residual,
                   fetcherVars, decisionVars, otherVars, now>>

\* line 50: error = abs(y - self.model.predict_proba_one(X).get(1, 0.5)),
\* the error of the streaming model alone, as it is after line 47.
ErrorOf(m) == [online |-> m, fused |-> FALSE]

\* _predict_and_learn, lines 50-57: the detector takes the error of the
\* updated model; whether it then signals drift depends on the data.
DetectorUpdate(c) ==
    /\ lpc[c] = "detect"
    /\ \E d \in (IF model.gen < MaxResets THEN BOOLEAN ELSE {FALSE}) :
        /\ drift_detector' = [n |-> drift_detector.n + 1, drift_detected |-> d]
        /\ warned' = [warned EXCEPT ![c] = d]
        /\ residual' = ErrorOf(model)
        /\ lpc' = [lpc EXCEPT ![c] = IF d THEN "dump" ELSE "next"]
    /\ UNCHANGED <<model, base_model, last_train_time, db, new_data, idx,
                   predictions, lresult, lerror, drifted_files, online_file,
                   learned, fetcherVars, decisionVars, otherVars, now>>

\* _handle_concept_drift, line 63: joblib.dump of the old model.  When the
\* write raises, nothing catches it before process_new_data's except.
DriftDump(c) ==
    /\ lpc[c] = "dump"
    /\ \E ok \in BOOLEAN :
        IF ok
          THEN /\ drifted_files' = drifted_files \cup {model}
               /\ lpc' = [lpc EXCEPT ![c] = "reset"]
               /\ UNCHANGED <<lresult, lerror>>
          ELSE /\ LearnerFail(c, "checkpoint")
               /\ UNCHANGED drifted_files
    /\ UNCHANGED <<model, base_model, drift_detector, last_train_time, db,
                   new_data, idx, predictions, warned, online_file,
                   residual, learned,
                   fetcherVars, decisionVars, otherVars, now>>

\* A drift handler that leaves the reset to a later call.
ModelAfterDriftMutant(m) == m

\* _handle_concept_drift, line 66: self.model = self._init_online_model()
ModelAfterDrift(m) == InitOnlineModel(m.gen + 1)

\* _handle_concept_drift, lines 66-67: new model, detector reset; then
\* _predict_and_learn returns.
DriftReset(c) ==
    /\ lpc[c] = "reset"
    /\ model' = ModelAfterDrift(model)
    /\ drift_detector' = FreshDetector
    /\ lpc' = [lpc EXCEPT ![c] = "next"]
    /\ UNCHANGED <<base_model, last_train_time, db, new_data, idx,
                   predictions, warned, lresult, lerror, drifted_files,
                   online_file, residual, learned,
                   fetcherVars, decisionVars, otherVars, now>>

\* for idx, row in X.iterrows(): _predict_and_learn has returned; the loop
\* takes the next row or ends.
LoopNext(c) ==
    /\ lpc[c] = "next"
    /\ IF idx[c] < Len(new_data[c])
         THEN /\ idx' = [idx EXCEPT ![c] = @ + 1]
              /\ lpc' = [lpc EXCEPT ![c] = "learn"]
         ELSE /\ lpc' = [lpc EXCEPT ![c] = "save"]
              /\ UNCHANGED idx
    /\ UNCHANGED <<model, base_model, drift_detector, last_train_time, db,
                   new_data, predictions, warned, lresult, lerror,
                   drifted_files, online_file, residual, learned,
                   fetcherVars, decisionVars, otherVars, now>>

\* A check that snapshots as soon as the interval has elapsed.
SnapshotDueMutant(elapsed) == elapsed >= SAVE_INTERVAL

\* line 97: (datetime.now() - self.last_train_time) > timedelta(hours=1)
SnapshotDue(elapsed) == elapsed > SAVE_INTERVAL

\* process_new_data, lines 97-102: the hourly dump, then return predictions.
PeriodicSave(c) ==
    /\ lpc[c] = "save"
    /\ IF SnapshotDue(now - last_train_time)
         THEN \E ok \in BOOLEAN :
                IF ok
                  THEN /\ online_file' = {model}
                       /\ last_train_time' = now
                       /\ lpc' = [lpc EXCEPT ![c] = "idle"]
                       /\ lresult' = [lresult EXCEPT ![c] = "predictions"]
                       /\ UNCHANGED lerror
                  ELSE /\ LearnerFail(c, "save")
                       /\ UNCHANGED <<online_file, last_train_time>>
         ELSE /\ lpc' = [lpc EXCEPT ![c] = "idle"]
              /\ lresult' = [lresult EXCEPT ![c] = "predictions"]
              /\ UNCHANGED <<online_file, last_train_time, lerror>>
    /\ UNCHANGED <<model, base_model, drift_detector, db, new_data, idx,
                   predictions, warned, drifted_files, residual, learned,
                   fetcherVars, decisionVars, otherVars, now>>

\* One caller of process_new_data at a time: nothing in src/ calls it from
\* more than one thread.
LearnerNext ==
    \/ Tick
    \/ InsertRow
    \/ \E c \in {"c1"} : FetchNewData(c)
    \/ \E c \in {"c1"} : HybridPredict(c)
    \/ \E c \in {"c1"} : LearnOne(c)
    \/ \E c \in {"c1"} : DetectorUpdate(c)
    \/ \E c \in {"c1"} : DriftDump(c)
    \/ \E c \in {"c1"} : DriftReset(c)
    \/ \E c \in {"c1"} : LoopNext(c)
    \/ \E c \in {"c1"} : PeriodicSave(c)

\* Two threads calling process_new_data on the same OnlineLearner: the
\* class takes no lock, so their statements interleave freely.
ConcurrentLearnerNext ==
    \/ \E c \in Cycles : FetchNewData(c)
    \/ \E c \in Cycles : HybridPredict(c)
    \/ \E c \in Cycles : LearnOne(c)
    \/ \E c \in Cycles : DetectorUpdate(c)
    \/ \E c \in Cycles : DriftDump(c)
    \/ \E c \in Cycles : DriftReset(c)
    \/ \E c \in Cycles : LoopNext(c)
    \/ \E c \in Cycles : PeriodicSave(c)


(***************************************************************************)
(* SignalGenerator.generate_signals (modules/signal_generator.py)          *)
(***************************************************************************)
\* A mapping that sends 0.7 itself to Long and 0.3 itself to Short.
SignalOfMutant(pred) ==
    IF 10 * pred >= 7 * PScale THEN "Long"
    ELSE IF 10 * pred <= 3 * PScale THEN "Short"
    ELSE "Hold"

\* line 118: "Long" if prediction > 0.7 else "Short" if prediction < 0.3
\* else "Hold", for prediction = pred/PScale.
SignalOf(pred) ==
    IF 10 * pred > 7 * PScale THEN "Long"
    ELSE IF 10 * pred < 3 * PScale THEN "Short"
    ELSE "Hold"

\* Tiers that count the boundary values themselves as the higher level.
RiskLevelOfMutant(vol) ==
    IF 100 * vol >= 3 * VolScale THEN "High"
    ELSE IF 1000 * vol >= 15 * VolScale THEN "Medium"
    ELSE "Low"


\* line 124: "High" if volatility > 0.03 else "Medium" if volatility > 0.015
\* else "Low", for volatility = vol/VolScale.
RiskLevelOf(vol) ==
    IF 100 * vol > 3 * VolScale THEN "High"
    ELSE IF 1000 * vol > 15 * VolScale THEN "Medium"
    ELSE "Low"

\* A regime test that accepts the boundary values p = 0.05 and width = 0.1.
RegimeOfMutant(adf_p, bw) ==
    IF 100 * adf_p <= 5 * PScale /\ 10 * bw <= BwScale
      THEN "Range-bound"
      ELSE "Trending"


\* detect_market_regime, lines 83-86, for an ADF p-value adf_p/PScale and a
\* band width bw/BwScale.
RegimeOf(adf_p, bw) ==
    IF 100 * adf_p < 5 * PScale /\ 10 * bw < BwScale
      THEN "Range-bound"
      ELSE "Trending"

\* round(prediction, 2), in hundredths; an exact tie goes to the even digit.
Round2(pred) ==
    LET q == (100 * pred) \div PScale
        r == (100 * pred) % PScale
    IN  IF 2 * r > PScale THEN q + 1
        ELSE IF 2 * r < PScale THEN q
        ELSE IF q % 2 = 0 THEN q ELSE q + 1

\* return {} : on empty data (line 106) and in the except branch (line 145)
EmptyDict ==
    [empty |-> TRUE, signal |-> "-", probability |-> 0, regime |-> "-",
     risk_level |-> "-"]

NoInputs ==
    [outcome |-> "-", prediction |-> 0, volatility |-> 0, adf_p |-> 0,
     bandwidth |-> 0]

\* The inputs one generate_signals call can meet.
SignalInputs ==
    {[NoInputs EXCEPT !.outcome = o] : o \in {"empty", "raised"}}
        \cup [outcome : {"ok"}, prediction : 0..PScale, volatility : 0..VolMax,
              adf_p : 0..PScale, bandwidth : 0..BwMax]

DecisionInit ==
    /\ signal_inputs = NoInputs
    /\ signal_data = EmptyDict
    /\ signal_pc = "ready"
    /\ kelly_args = [win_prob |-> [kind |-> "-", v |-> 0],
                     win_loss_ratio |-> [kind |-> "-", v |-> 0]]
    /\ kelly_position = [nan |-> FALSE, num |-> 0, den |-> 1]
    /\ kelly_pc = "ready"

\* generate_signals: the whole pipeline of one call.
generate_signals ==
    /\ signal_pc = "ready"
    /\ signal_inputs.outcome # "-"
    /\ signal_pc' = "returned"
    /\ signal_data' =
         IF signal_inputs.outcome # "ok"
           THEN EmptyDict
           ELSE [empty |-> FALSE,
                 signal |-> SignalOf(signal_inputs.prediction),
                 probability |-> Round2(signal_inputs.prediction),
                 regime |-> RegimeOf(signal_inputs.adf_p, signal_inputs.bandwidth),
                 risk_level |-> RiskLevelOf(signal_inputs.volatility)]
    /\ UNCHANGED <<signal_inputs, kelly_args, kelly_position, kelly_pc,
                   fetcherVars, learnerVars, otherVars, now>>

SignalsNext == generate_signals

(***************************************************************************)
(* RiskManager.calculate_kelly_position (modules/risk_manager.py)          *)
(* An argument is a number v/KScale, a NaN, or something that is not a     *)
(* number; a result is the fraction num/den or a NaN.                      *)
(***************************************************************************)
KellyInputs ==
    [kind : {"num"}, v : (0 - BelowZero)..RatioMax]
        \cup [kind : {"nan", "other"}, v : {0}]

Frac(n, d) == [nan |-> FALSE, num |-> n, den |-> d]
NaN == [nan |-> TRUE, num |-> 0, den |-> 1]

\* x < y on floats: false as soon as one side is a NaN.
FloatLess(x, y) ==
    /\ ~x.nan
    /\ ~y.nan
    /\ x.num * y.den < y.num * x.den

\* Python's min(a, b) and max(a, b): b when b < a (b > a), otherwise a.
PyMin(a, b) == IF FloatLess(b, a) THEN b ELSE a
PyMax(a, b) == IF FloatLess(a, b) THEN b ELSE a

\* A formula that forgets the stake: (p*b - 1)/b.
KellyFMutant(wp, wl) ==
    IF wp.kind = "nan" \/ wl.kind = "nan" THEN NaN
    ELSE Frac(wp.v * wl.v - KScale * KScale, KScale * wl.v)

\* line 24: (win_prob * (win_loss_ratio + 1) - 1) / win_loss_ratio
KellyF(wp, wl) ==
    IF wp.kind = "nan" \/ wl.kind = "nan" THEN NaN
    ELSE Frac(wp.v * (wl.v + KScale) - KScale * KScale, KScale * wl.v)

\* A clamp without its upper bound.
KellyClampMutant(k) == PyMax(Frac(0, 1), k)

\* line 25: max(0.0, min(kelly_f, 1.0))
KellyClamp(k) == PyMax(Frac(0, 1), PyMin(k, Frac(1, 1)))

\* win_prob <= 0 or win_loss_ratio <= 0 (line 21); a NaN is not <= 0.
NonPositive(x) == x.kind = "num" /\ x.v <= 0

\* The comparison of line 21 raises TypeError on an operand it evaluates
\* that is not a number; `or` skips its right side when the left is true.
Line21Raises(wp, wl) ==
    \/ wp.kind = "other"
    \/ (~NonPositive(wp) /\ wl.kind = "other")

calculate_kelly_position(wp, wl) ==
    IF Line21Raises(wp, wl) THEN Frac(0, 1)
    ELSE IF NonPositive(wp) \/ NonPositive(wl) THEN Frac(0, 1)
    ELSE KellyClamp(KellyF(wp, wl))

KellyArgs ==
    [win_prob : {x \in KellyInputs : x.kind # "num" \/ x.v <= WinProbMax},
     win_loss_ratio : KellyInputs]

CallKelly ==
    /\ kelly_pc = "ready"
    /\ kelly_args \in KellyArgs
    /\ kelly_pc' = "returned"
    /\ kelly_position' =
         calculate_kelly_position(kelly_args.win_prob, kelly_args.win_loss_ratio)
    /\ UNCHANGED <<kelly_args, signal_inputs, signal_data, signal_pc,
                   fetcherVars, learnerVars, otherVars, now>>

KellyNext == CallKelly

(***************************************************************************)
(* RiskManager.news_based_risk_adjustment (modules/risk_manager.py)        *)
(* A position is position/NewsScale; the average positive score of the     *)
(* last 24 hours is avg_score/NewsScale, or NoScore when the query finds   *)
(* no news (SQL AVG of no rows is NULL).                                    *)
(***************************************************************************)
NoScore == -1

\* SentimentAnalyzer.get_recent_sentiment, in units of 1/(2*NewsScale):
\* `avg_score or 0.5` (line 101) and `return 0.5` when the query raises.
get_recent_sentiment(raised, avg_score) ==
    IF raised \/ avg_score = NoScore \/ avg_score = 0
      THEN NewsScale
      ELSE 2 * avg_score

\* A factor that grows with bad news: 1.0 + 0.2 * (1.0 - sentiment_score).
SentimentFactorMutant(score) ==
    PyMax(Frac(1, 2), Frac(12 * NewsScale - score, 10 * NewsScale))

\* line 111: max(0.5, 1.0 - (0.2 * (1.0 - sentiment_score)))
\* for sentiment_score = score/(2*NewsScale)
SentimentFactor(score) ==
    PyMax(Frac(1, 2), Frac(8 * NewsScale + score, 10 * NewsScale))

\* line 112: max(0.3, 1.0 - (0.1 * event_risk))
EventFactor(event_risk) == PyMax(Frac(3, 10), Frac(10 - event_risk, 10))

Times(x, y) == Frac(x.num * y.num, x.den * y.den)

\* lines 103-120
news_based_risk_adjustment(a) ==
    IF a.lookup = "calendar_raised"
      THEN Frac(a.position, NewsScale)
      ELSE LET sentiment_score ==
                   get_recent_sentiment(a.lookup = "sentiment_raised", a.avg_score)
               adjusted_size ==
                   Times(Times(Frac(a.position, NewsScale),
                               SentimentFactor(sentiment_score)),
                         EventFactor(a.events))
           IN  PyMin(adjusted_size, Frac(1, 1))

\* The calls the function can meet: any position, either lookup failing.
NewsArgs ==
    [position : 0..PosMax,
     lookup : {"ok", "sentiment_raised", "calendar_raised"},
     avg_score : {NoScore} \cup 0..NewsScale,
     events : 0..MaxEvents]

NoNewsArgs == [position |-> 0, lookup |-> "-", avg_score |-> NoScore, events |-> 0]

NewsIdle ==
    /\ news_args = NoNewsArgs
    /\ news_result = Frac(0, 1)
    /\ news_pc = "ready"

CallNewsAdjustment ==
    /\ news_pc = "ready"
    /\ news_args \in NewsArgs
    /\ news_pc' = "returned"
    /\ news_result' = news_based_risk_adjustment(news_args)
    /\ UNCHANGED <<news_args, totalRiskVars, atrVars, predictionVars,
                   windowVars, resampleVars,
                   fetcherVars, learnerVars, decisionVars, now>>

NewsNext == CallNewsAdjustment

(***************************************************************************)
(* RiskManager.calculate_total_risk (modules/risk_manager.py)              *)
(* What each sub-calculation meets is an input of the call: `kelly`,       *)
(* `atr`, `analysis` are "ok" or "failed" (the sub-calculation's own       *)
(* except branch ran), news.lookup is as in NewsArgs.                      *)
(***************************************************************************)
\* round(x, 2) in hundredths, an exact tie going to the even digit
RoundHundredths(x) ==
    LET q == (100 * x.num) \div x.den
        r == (100 * x.num) % x.den
    IN  IF 2 * r > x.den THEN q + 1
        ELSE IF 2 * r < x.den THEN q
        ELSE IF q % 2 = 0 THEN q ELSE q + 1

\* calculate_atr_stop_loss as calculate_total_risk sees it: a pair of
\* stops, or (0.0, 0.0) from its except branch (lines 56-58).
StopsOf(a) == IF a.atr = "failed" THEN <<0, 0>> ELSE a.stops

\* calculate_kelly_position as calculate_total_risk sees it: a size, or
\* 0.0 from its except branch (lines 27-29).
KellySizeOf(a) == IF a.kelly = "failed" THEN 0 ELSE a.kelly_size

\* The report's keys that name a failed sub-calculation: the dict built in
\* lines 127-142 has none.
FailureFlags(a) == {}

NoReport ==
    [raised |-> FALSE, kelly_position |-> 0, stops |-> <<0, 0>>,
     news_adjusted_position |-> Frac(0, 1), risk_score |-> NoScore,
     final_position |-> Frac(0, 1), failed |-> {}]

\* prediction_analysis['risk_score'] as calculate_total_risk sees it: the
\* score in steps of 1/RiskScoreScale, or the nan of a 0.0/0.0 at line 77.
DeviationOf(a) ==
    IF a.analysis = "nan" THEN NaN ELSE Frac(a.risk_score, RiskScoreScale)

\* lines 138-140: position * (1.0 - risk_score / 3.0); nan when the score is.
ScaledDown(position, risk_score) ==
    IF risk_score.nan THEN NaN
    ELSE Times(position, Frac(3 * risk_score.den - risk_score.num,
                              3 * risk_score.den))

\* lines 122-144.  analyze_user_prediction returns {} from its except
\* branch (lines 97-99), and line 140 then reads report['risk_score'].
calculate_total_risk(a) ==
    LET kelly_size == KellySizeOf(a)
        news == news_based_risk_adjustment(
                    [a.news EXCEPT !.position = kelly_size])
        report == [raised |-> FALSE,
                   kelly_position |-> RoundHundredths(Frac(kelly_size, NewsScale)),
                   stops |-> StopsOf(a),
                   news_adjusted_position |-> news,
                   risk_score |-> NoScore,
                   final_position |-> news,
                   failed |-> FailureFlags(a)]
    IN  IF a.entry_price = "None" THEN report
        ELSE IF a.analysis = "failed" THEN [NoReport EXCEPT !.raised = TRUE]
        ELSE [report EXCEPT
                !.risk_score = DeviationOf(a),
                !.final_position = ScaledDown(news, DeviationOf(a))]

StopPairs == {<<8, 12>>, <<10, 10>>}

\* The news lookups of a calculate_total_risk call.
RiskNews ==
    {n \in NewsArgs : /\ n.position = 0
                      /\ n.avg_score \in {NoScore, NewsScale}
                      /\ n.events \in {0, MaxEvents}}

\* risk_score = min(price_diff / (volatility * 2), 3.0) (line 77), here in
\* steps of 1/RiskScoreScale; the analysis may also fail, or return nan.
RiskArgs ==
    [kelly : {"ok", "failed"}, kelly_size : 0..NewsScale,
     atr : {"ok", "failed"}, stops : StopPairs,
     news : RiskNews,
     entry_price : {"None"}, analysis : {"ok"}, risk_score : {0}]
    \cup
    [kelly : {"ok", "failed"}, kelly_size : 0..NewsScale,
     atr : {"ok", "failed"}, stops : StopPairs,
     news : RiskNews,
     entry_price : {"given"}, analysis : {"ok"},
     risk_score : 0..(3 * RiskScoreScale)]
    \cup
    [kelly : {"ok", "failed"}, kelly_size : 0..NewsScale,
     atr : {"ok", "failed"}, stops : StopPairs,
     news : RiskNews,
     entry_price : {"given"}, analysis : {"failed", "nan"}, risk_score : {0}]

NoRiskArgs ==
    [kelly |-> "-", kelly_size |-> 0, atr |-> "-", stops |-> <<0, 0>>,
     news |-> NoNewsArgs, entry_price |-> "None", analysis |-> "-",
     risk_score |-> 0]

TotalRiskIdle ==
    /\ risk_args = NoRiskArgs
    /\ risk_report = NoReport
    /\ risk_pc = "ready"

CallTotalRisk ==
    /\ risk_pc = "ready"
    /\ risk_args \in RiskArgs
    /\ risk_pc' = "returned"
    /\ risk_report' = calculate_total_risk(risk_args)
    /\ UNCHANGED <<risk_args, newsVars, atrVars, predictionVars,
                   windowVars, resampleVars,
                   fetcherVars, learnerVars, decisionVars, now>>

TotalRiskNext == CallTotalRisk


(***************************************************************************)
(* MainWindow (ui/main_window.py) and main() (main.py)                     *)
(* Tk runs the callbacks of a window on one thread, one at a time: a       *)
(* timer callback or a close request is dispatched only while no other     *)
(* callback of that window is running.  destroy() deletes the callbacks    *)
(* the window registered with after(), so none of them runs afterwards.    *)
(***************************************************************************)
\* What destroy() leaves of the callbacks that were still pending.
PendingAfterDestroyMutant(n) == n

PendingAfterDestroy(n) == 0

\* main(): MainWindow(logger), then app.after(10, app.start_update_cycle)
MainWindowInit ==
    /\ main_alive = TRUE
    /\ main_pc = "idle"
    /\ main_timers = 1
    /\ main_status = "Baslatildi"
    /\ main_labels = NoTime
    /\ logger_open = TRUE

\* start_update_cycle, lines 117-127: the five update_* calls write
\* time.time() into their labels; an exception ends in the except branch.
start_update_cycle ==
    /\ main_alive
    /\ main_pc = "idle"
    /\ main_timers > 0
    /\ main_timers' = main_timers - 1
    /\ main_labels' = now
    /\ \E ok \in BOOLEAN :
         main_status' = IF ok THEN "Uygulama calisiyor..." ELSE "Hata"
    /\ main_pc' = "finally"
    /\ UNCHANGED <<main_alive, logger_open, trainingVars, fetcherVars,
                   learnerVars, decisionVars, riskVars, resampleVars, now>>

\* A cycle that reschedules itself at the end of the try block only: after
\* an exception nothing is scheduled.
ScheduleNextCycleMutant ==
    /\ main_pc = "finally"
    /\ main_timers' = IF main_status = "Hata" THEN main_timers ELSE main_timers + 1
    /\ main_pc' = "idle"
    /\ UNCHANGED <<main_alive, main_status, main_labels, logger_open,
                   trainingVars, fetcherVars, learnerVars, decisionVars,
                   riskVars, resampleVars, now>>


\* line 130, in the finally block: self.after(self.update_interval, ...)
ScheduleNextCycle ==
    /\ main_pc = "finally"
    /\ main_timers' = main_timers + 1
    /\ main_pc' = "idle"
    /\ UNCHANGED <<main_alive, main_status, main_labels, logger_open,
                   trainingVars, fetcherVars, learnerVars, decisionVars,
                   riskVars, resampleVars, now>>

\* on_closing, lines 186-194: logger.shutdown(), then self.destroy()
on_closing ==
    /\ main_alive
    /\ main_pc = "idle"
    /\ logger_open' = FALSE
    /\ main_alive' = FALSE
    /\ main_timers' = PendingAfterDestroy(main_timers)
    /\ UNCHANGED <<main_pc, main_status, main_labels, trainingVars,
                   fetcherVars, learnerVars, decisionVars, riskVars, resampleVars, now>>

(***************************************************************************)
(* TrainingWindow (ui/training_window.py)                                  *)
(* The buttons start worker threads, which talk to the window through      *)
(* self.queue; the window's own start_update_cycle drains the queue.       *)
(***************************************************************************)
QueueItems == {"progress", "features", "log", "backtest", "error"}

\* __init__, lines 15-27: it runs the first start_update_cycle itself, on
\* an empty queue, which leaves one callback pending.
TrainingWindowInit ==
    /\ tw_alive = TRUE
    /\ running = TRUE
    /\ tw_pc = "idle"
    /\ tw_timers = 1
    /\ queue = <<>>
    /\ progress = 0
    /\ tw_status = "Hazir"
    /\ train_btn = "normal"
    /\ train_pc = "none"
    /\ backtest_pc = "none"

\* line 79: the train button's command starts a thread on start_training
ClickTrain ==
    /\ tw_alive
    /\ tw_pc = "idle"
    /\ train_btn = "normal"
    /\ train_pc = "none"
    /\ train_pc' = "started"
    /\ UNCHANGED <<tw_alive, running, tw_pc, tw_timers, queue, progress,
                   tw_status, train_btn, backtest_pc, mainVars, fetcherVars,
                   learnerVars, decisionVars, riskVars, resampleVars, now>>

\* queue.put(item) by a worker thread
Put(item) == queue' = Append(queue, item)

\* start_training, lines 146-147; on a destroyed window the widget call
\* raises and the except branch (lines 157-159) puts the error.
TrainingBegins ==
    /\ train_pc = "started"
    /\ IF tw_alive
         THEN /\ train_btn' = "disabled"
              /\ tw_status' = "Model egitimi baslatiliyor..."
              /\ train_pc' = "training"
              /\ UNCHANGED queue
         ELSE /\ Len(queue) < MaxQueue
              /\ Put("error")
              /\ train_pc' = "none"
              /\ UNCHANGED <<train_btn, tw_status>>
    /\ UNCHANGED <<tw_alive, running, tw_pc, tw_timers, progress, backtest_pc,
                   mainVars, fetcherVars, learnerVars, decisionVars, riskVars, resampleVars,
                   now>>

\* lines 149-159: the training itself, then the first put of its outcome
TrainingEnds ==
    /\ train_pc = "training"
    /\ Len(queue) < MaxQueue
    /\ \E ok \in BOOLEAN :
         IF ok THEN Put("progress") /\ train_pc' = "put_features"
               ELSE Put("error") /\ train_pc' = "none"
    /\ UNCHANGED <<tw_alive, running, tw_pc, tw_timers, progress, tw_status,
                   train_btn, backtest_pc, mainVars, fetcherVars, learnerVars,
                   decisionVars, riskVars, resampleVars, now>>

\* lines 154-155
TrainingReports ==
    /\ train_pc \in {"put_features", "put_log"}
    /\ Len(queue) < MaxQueue
    /\ IF train_pc = "put_features"
         THEN Put("features") /\ train_pc' = "put_log"
         ELSE Put("log") /\ train_pc' = "none"
    /\ UNCHANGED <<tw_alive, running, tw_pc, tw_timers, progress, tw_status,
                   train_btn, backtest_pc, mainVars, fetcherVars, learnerVars,
                   decisionVars, riskVars, resampleVars, now>>

\* line 86: the backtest button's command starts a thread on run_backtest
ClickBacktest ==
    /\ tw_alive
    /\ tw_pc = "idle"
    /\ backtest_pc = "none"
    /\ backtest_pc' = "started"
    /\ UNCHANGED <<tw_alive, running, tw_pc, tw_timers, queue, progress,
                   tw_status, train_btn, train_pc, mainVars, fetcherVars,
                   learnerVars, decisionVars, riskVars, resampleVars, now>>

\* run_backtest, lines 163-178; the except branch only logs.
run_backtest ==
    /\ backtest_pc = "started"
    /\ backtest_pc' = "none"
    /\ IF tw_alive
         THEN /\ Len(queue) < MaxQueue
              /\ tw_status' = "Backtest calistiriliyor..."
              /\ Put("backtest")
         ELSE UNCHANGED <<tw_status, queue>>
    /\ UNCHANGED <<tw_alive, running, tw_pc, tw_timers, progress, train_btn,
                   train_pc, mainVars, fetcherVars, learnerVars, decisionVars,
                   riskVars, resampleVars, now>>

\* TrainingWindow.start_update_cycle, lines 191-204: at most one item
ProcessQueue ==
    /\ tw_alive
    /\ tw_pc = "idle"
    /\ tw_timers > 0
    /\ tw_timers' = tw_timers - 1
    /\ tw_pc' = "after"
    /\ IF queue = <<>>
         THEN UNCHANGED <<queue, progress, tw_status, train_btn>>
         ELSE /\ queue' = Tail(queue)
              /\ progress' = IF Head(queue) = "progress" THEN 100 ELSE progress
              /\ tw_status' =
                   CASE Head(queue) = "log" -> "Egitim basariyla tamamlandi!"
                     [] Head(queue) = "backtest" -> "Backtest tamamlandi"
                     [] Head(queue) = "error" -> "Hata"
                     [] OTHER -> tw_status
              /\ train_btn' =
                   IF Head(queue) = "error" THEN "normal" ELSE train_btn
    /\ UNCHANGED <<tw_alive, running, train_pc, backtest_pc, mainVars,
                   fetcherVars, learnerVars, decisionVars, riskVars, resampleVars, now>>

\* line 206: self.after(100, self.start_update_cycle)
ScheduleNextPoll ==
    /\ tw_pc = "after"
    /\ tw_timers' = tw_timers + 1
    /\ tw_pc' = "idle"
    /\ UNCHANGED <<tw_alive, running, queue, progress, tw_status, train_btn,
                   train_pc, backtest_pc, mainVars, fetcherVars, learnerVars,
                   decisionVars, riskVars, resampleVars, now>>

\* on_close, lines 230-233
on_close ==
    /\ tw_alive
    /\ tw_pc = "idle"
    /\ running' = FALSE
    /\ tw_alive' = FALSE
    /\ tw_timers' = PendingAfterDestroy(tw_timers)
    /\ UNCHANGED <<tw_pc, queue, progress, tw_status, train_btn, train_pc,
                   backtest_pc, mainVars, fetcherVars, learnerVars,
                   decisionVars, riskVars, resampleVars, now>>

WindowsInit ==
    /\ MainWindowInit
    /\ TrainingWindowInit

WindowsNext ==
    \/ Tick
    \/ start_update_cycle
    \/ ScheduleNextCycle
    \/ on_closing
    \/ ClickTrain
    \/ TrainingBegins
    \/ TrainingEnds
    \/ TrainingReports
    \/ ClickBacktest
    \/ run_backtest
    \/ ProcessQueue
    \/ ScheduleNextPoll
    \/ on_close


(***************************************************************************)
(* SignalGenerator.load_historical_data: the resampling of lines 32-40     *)
(* A series is a set of rows with distinct timestamps (minutes); a bucket  *)
(* of the timeframe holds BucketWidth consecutive minutes.                 *)
(***************************************************************************)
Prices == {1, 2}

Bars ==
    {b \in [open : Prices, high : Prices, low : Prices, close : Prices,
            volume : {1}] :
        /\ b.low <= b.open /\ b.open <= b.high
        /\ b.low <= b.close /\ b.close <= b.high}

\* No row for a minute.
NoBar == [open |-> 0, high |-> 0, low |-> 0, close |-> 0, volume |-> 0]

\* The series the table can hold: at most one row for each minute.
SeriesOf(f) ==
    {[timestamp |-> m, open |-> f[m].open, high |-> f[m].high,
      low |-> f[m].low, close |-> f[m].close, volume |-> f[m].volume] :
        m \in {n \in DOMAIN f : f[n] # NoBar}}

AllSeries == {SeriesOf(f) : f \in [0..(MaxMinute - 1) -> Bars \cup {NoBar}]}

BucketOf(timestamp) == timestamp \div BucketWidth

\* A label one bucket late: the bucket's right edge.
BucketLabelMutant(b) == (b + 1) * BucketWidth

\* The timestamp a bucket's bar carries: the bucket's left edge.
BucketLabel(b) == b * BucketWidth

SetMax(S) == CHOOSE x \in S : \A y \in S : y <= x
SetMin(S) == CHOOSE x \in S : \A y \in S : x <= y

RECURSIVE SetSum(_)
SetSum(S) ==
    IF S = {} THEN 0
    ELSE LET r == CHOOSE x \in S : TRUE
         IN  r.volume + SetSum(S \ {r})

\* ohlc_dict, lines 33-39, on the rows of one bucket
Aggregate(b, rows) ==
    LET first == CHOOSE r \in rows : r.timestamp = SetMin({x.timestamp : x \in rows})
        last == CHOOSE r \in rows : r.timestamp = SetMax({x.timestamp : x \in rows})
    IN  [timestamp |-> BucketLabel(b),
         open |-> first.open,
         high |-> SetMax({r.high : r \in rows}),
         low |-> SetMin({r.low : r \in rows}),
         close |-> last.close,
         volume |-> SetSum(rows)]

\* line 40: df.resample(timeframe).apply(ohlc_dict).dropna(); a bucket
\* without rows has no open, high, low or close and is dropped.
Resample(df) ==
    {Aggregate(b, {r \in df : BucketOf(r.timestamp) = b}) :
        b \in {BucketOf(r.timestamp) : r \in df}}

ResampleIdle ==
    /\ series = {}
    /\ resampled = {}
    /\ again = {}
    /\ resample_pc = "-"

\* load_historical_data resamples the rows of the table ...
ResampleOnce ==
    /\ resample_pc = "ready"
    /\ resampled' = Resample(series)
    /\ resample_pc' = "once"
    /\ UNCHANGED <<series, again, riskVars, windowVars, fetcherVars,
                   learnerVars, decisionVars, now>>

\* ... and the same resampling is applied to what came out.
ResampleAgain ==
    /\ resample_pc = "once"
    /\ again' = Resample(resampled)
    /\ resample_pc' = "twice"
    /\ UNCHANGED <<series, resampled, riskVars, windowVars, fetcherVars,
                   learnerVars, decisionVars, now>>

ResampleNext ==
    \/ ResampleOnce
    \/ ResampleAgain


(***************************************************************************)
(* RiskManager.calculate_atr_stop_loss (modules/risk_manager.py)           *)
(* atr_table holds the commodity's bars in the order of their timestamps,  *)
(* the oldest first.  A stop is a number of ten-thousandths.               *)
(***************************************************************************)
Multiplier == 2

AtrPrices == {1, 3}

AtrBars ==
    {b \in [high : AtrPrices, low : AtrPrices, close : AtrPrices] :
        b.low <= b.close /\ b.close <= b.high}

\* lines 34-41: ORDER BY timestamp DESC LIMIT period + 1, so the frame's
\* first row is the newest bar and its last row the oldest one it holds.
Frame(table) ==
    LET n == Len(table)
        k == IF n < AtrPeriod + 1 THEN n ELSE AtrPeriod + 1
    IN  [i \in 1..k |-> table[n - i + 1]]

Abs(x) == IF x < 0 THEN 0 - x ELSE x

Max3(x, y, z) == SetMax({x, y, z})

\* lines 43-47: df['close'].shift() is the close of the row above; the
\* first row has none, and max(axis=1) skips its two NaN.
TrueRange(df, i) ==
    IF i = 1
      THEN df[i].high - df[i].low
      ELSE Max3(df[i].high - df[i].low,
                Abs(df[i].high - df[i - 1].close),
                Abs(df[i].low - df[i - 1].close))

RECURSIVE SumTrueRange(_, _, _)
SumTrueRange(df, from, to) ==
    IF from > to THEN 0
    ELSE TrueRange(df, from) + SumTrueRange(df, from + 1, to)

\* round(x, 4) in ten-thousandths, an exact tie going to the even digit
Round4(x) ==
    LET q == (10000 * x.num) \div x.den
        r == (10000 * x.num) % x.den
    IN  IF 2 * r > x.den THEN q + 1
        ELSE IF 2 * r < x.den THEN q
        ELSE IF q % 2 = 0 THEN q ELSE q + 1

\* lines 33-58.  On an empty frame iloc[-1] raises and the except branch
\* returns (0.0, 0.0); with fewer than `period` rows the rolling mean is NaN.
calculate_atr_stop_loss(table) ==
    LET df == Frame(table)
        n == Len(df)
    IN  IF n = 0 THEN [kind |-> "failed", long |-> 0, short |-> 0]
        ELSE IF n < AtrPeriod THEN [kind |-> "nan", long |-> 0, short |-> 0]
        ELSE LET sum == SumTrueRange(df, n - AtrPeriod + 1, n)
                 current_price == df[n].close
             IN  [kind |-> "ok",
                  long |-> Round4(Frac(current_price * AtrPeriod
                                         - Multiplier * sum, AtrPeriod)),
                  short |-> Round4(Frac(current_price * AtrPeriod
                                          + Multiplier * sum, AtrPeriod))]

RECURSIVE SeqsUpTo(_, _)
SeqsUpTo(S, n) ==
    IF n = 0 THEN {<<>>}
    ELSE LET shorter == SeqsUpTo(S, n - 1)
         IN  shorter \cup {Append(s, x) : s \in shorter, x \in S}

\* The tables the call can meet: from no bar to more than the query takes.
AtrTables == SeqsUpTo(AtrBars, AtrPeriod + 2)

NoStops == [kind |-> "-", long |-> 0, short |-> 0]

AtrIdle ==
    /\ atr_table = <<>>
    /\ atr_stops = NoStops
    /\ atr_pc = "-"

CallAtrStopLoss ==
    /\ atr_pc = "ready"
    /\ atr_pc' = "returned"
    /\ atr_stops' = calculate_atr_stop_loss(atr_table)
    /\ UNCHANGED <<atr_table, newsVars, totalRiskVars, predictionVars,
                   windowVars, resampleVars, fetcherVars, learnerVars, decisionVars, now>>

AtrNext == CallAtrStopLoss


(***************************************************************************)
(* RiskManager.analyze_user_prediction                                     *)
(***************************************************************************)
PredPriceMax == 6
PredVolMax == 3

\* numpy float division: x/0 is inf for x > 0 and nan for x = 0, and
\* neither raises.  The infinity is the fraction 1/0.
Divide(n, d) ==
    IF d = 0 THEN (IF n = 0 THEN NaN ELSE Frac(1, 0)) ELSE Frac(n, d)

\* line 77: risk_score = min(price_diff / (volatility * 2), 3.0)
DeviationScore(price_diff, volatility) ==
    PyMin(Divide(price_diff, volatility * 2), Frac(3, 1))

\* lines 80-86
DeviationLevel(risk_score) ==
    IF FloatLess(risk_score, Frac(1, 2)) THEN "Low"
    ELSE IF FloatLess(risk_score, Frac(3, 2)) THEN "Medium"
    ELSE "High"

\* round(risk_score, 2), in hundredths; round(nan, 2) is nan.
RoundScore(risk_score) ==
    IF risk_score.nan THEN NaN ELSE Frac(RoundHundredths(risk_score), 100)

\* return {} of the except branch, lines 97-99
NoAnalysis ==
    [empty |-> TRUE, current_price |-> 0, entry_diff |-> 0, volatility |-> 0,
     score |-> Frac(0, 1), risk_score |-> Frac(0, 1), risk_level |-> "-",
     recommendation |-> "-"]

\* lines 62-99.  `score` is the local risk_score the level is taken from;
\* the dict holds it rounded, under 'risk_score'.
analyze_user_prediction(a) ==
    IF a.lookup # "row" THEN NoAnalysis
    ELSE LET price_diff == Abs(a.current_price - a.entry_price)
             risk_score == DeviationScore(price_diff, a.volatility)
         IN  [empty |-> FALSE,
              current_price |-> a.current_price,
              entry_diff |-> price_diff,
              volatility |-> a.volatility,
              score |-> risk_score,
              risk_score |-> RoundScore(risk_score),
              risk_level |-> DeviationLevel(risk_score),
              recommendation |->
                  IF a.prediction_type = "Long" /\ a.current_price < a.entry_price
                    THEN "Long" ELSE "Short"]

NoPredictionArgs ==
    [lookup |-> "-", entry_price |-> 0, prediction_type |-> "-",
     current_price |-> 0, volatility |-> 0]

\* The latest cleaned_data row the query of lines 64-71 finds (close and
\* volatility in the same price unit), no row at all, or a failing query.
PredictionArgs ==
    [lookup : {"row"}, entry_price : 0..PredPriceMax,
     prediction_type : {"Long", "Short"},
     current_price : 0..PredPriceMax, volatility : 0..PredVolMax]
    \cup
    {[NoPredictionArgs EXCEPT !.lookup = l, !.prediction_type = "Long"] :
        l \in {"no_row", "raised"}}

PredictionIdle ==
    /\ pred_args = NoPredictionArgs
    /\ pred_analysis = NoAnalysis
    /\ pred_pc = "ready"

CallAnalyzeUserPrediction ==
    /\ pred_pc = "ready"
    /\ pred_args \in PredictionArgs
    /\ pred_pc' = "returned"
    /\ pred_analysis' = analyze_user_prediction(pred_args)
    /\ UNCHANGED <<pred_args, newsVars, totalRiskVars, atrVars, windowVars,
                   resampleVars, fetcherVars, learnerVars, decisionVars, now>>

PredictionNext == CallAnalyzeUserPrediction



\* The components that are idle in the specifications of the others.
OtherIdle ==
    /\ NewsIdle
    /\ TotalRiskIdle
    /\ AtrIdle
    /\ PredictionIdle
    /\ WindowsInit
    /\ ResampleIdle


Init ==
    /\ FetcherInit
    /\ LearnerInit
    /\ DecisionInit
    /\ OtherIdle
    /\ now = 0

SpecFetcher == Init /\ [][FetcherNext]_vars

\* A thread that has entered a fetch keeps executing its statements.
SpecUnanswered ==
    Init /\ [][UnansweredNext]_vars /\ WF_vars(FetchStep("t1"))

SpecLearner == Init /\ [][LearnerNext]_vars

\* A learner one second old, with one labeled row waiting for it.
ConcurrentLearnerInit ==
    /\ FetcherInit
    /\ DecisionInit
    /\ OtherIdle
    /\ now = 1
    /\ LearnerInitWith({1})

SpecConcurrentLearner ==
    ConcurrentLearnerInit /\ [][ConcurrentLearnerNext]_vars

\* One generate_signals call on any of the inputs.
SignalsInit ==
    /\ FetcherInit
    /\ LearnerInit
    /\ now = 0
    /\ signal_inputs \in SignalInputs
    /\ signal_data = EmptyDict
    /\ signal_pc = "ready"
    /\ kelly_args = [win_prob |-> [kind |-> "-", v |-> 0],
                     win_loss_ratio |-> [kind |-> "-", v |-> 0]]
    /\ kelly_position = [nan |-> FALSE, num |-> 0, den |-> 1]
    /\ kelly_pc = "ready"
    /\ OtherIdle

SpecSignals == SignalsInit /\ [][SignalsNext]_vars

\* One calculate_kelly_position call on any pair of arguments.
KellyInit ==
    /\ FetcherInit
    /\ LearnerInit
    /\ now = 0
    /\ signal_inputs = NoInputs
    /\ signal_data = EmptyDict
    /\ signal_pc = "ready"
    /\ kelly_args \in KellyArgs
    /\ kelly_position = [nan |-> FALSE, num |-> 0, den |-> 1]
    /\ kelly_pc = "ready"
    /\ OtherIdle

SpecKelly == KellyInit /\ [][KellyNext]_vars

\* One news_based_risk_adjustment call on any of its arguments.
NewsInit ==
    /\ FetcherInit
    /\ LearnerInit
    /\ DecisionInit
    /\ now = 0
    /\ news_args \in NewsArgs
    /\ news_result = Frac(0, 1)
    /\ news_pc = "ready"
    /\ TotalRiskIdle
    /\ AtrIdle
    /\ PredictionIdle
    /\ WindowsInit
    /\ ResampleIdle

SpecNews == NewsInit /\ [][NewsNext]_vars

\* One calculate_total_risk call, each sub-calculation succeeding or not.
TotalRiskInit ==
    /\ FetcherInit
    /\ LearnerInit
    /\ DecisionInit
    /\ now = 0
    /\ NewsIdle
    /\ risk_args \in RiskArgs
    /\ risk_report = NoReport
    /\ risk_pc = "ready"
    /\ AtrIdle
    /\ PredictionIdle
    /\ WindowsInit
    /\ ResampleIdle

SpecTotalRisk == TotalRiskInit /\ [][TotalRiskNext]_vars

\* Any table of bars, resampled and resampled again.
ResampleInit ==
    /\ FetcherInit
    /\ LearnerInit
    /\ DecisionInit
    /\ now = 0
    /\ NewsIdle
    /\ TotalRiskIdle
    /\ AtrIdle
    /\ PredictionIdle
    /\ WindowsInit
    /\ series \in AllSeries
    /\ resampled = {}
    /\ again = {}
    /\ resample_pc = "ready"

SpecResample == ResampleInit /\ [][ResampleNext]_vars

\* One calculate_atr_stop_loss call on any table of bars.
AtrInit ==
    /\ FetcherInit
    /\ LearnerInit
    /\ DecisionInit
    /\ now = 0
    /\ NewsIdle
    /\ TotalRiskIdle
    /\ PredictionIdle
    /\ WindowsInit
    /\ ResampleIdle
    /\ atr_table \in AtrTables
    /\ atr_stops = NoStops
    /\ atr_pc = "ready"

SpecAtr == AtrInit /\ [][AtrNext]_vars

\* Both windows open, the user and the worker threads acting on them.
\* One analyze_user_prediction call on any entry price and latest row.
PredictionInit ==
    /\ FetcherInit
    /\ LearnerInit
    /\ DecisionInit
    /\ now = 0
    /\ NewsIdle
    /\ TotalRiskIdle
    /\ AtrIdle
    /\ WindowsInit
    /\ ResampleIdle
    /\ pred_args \in PredictionArgs
    /\ pred_analysis = NoAnalysis
    /\ pred_pc = "ready"

SpecPrediction == PredictionInit /\ [][PredictionNext]_vars

SpecWindows == Init /\ [][WindowsNext]_vars

(***************************************************************************)
(* Quota tracker: what the claims about it speak of                        *)
(***************************************************************************)
InCritical(t) == pc[t] \in {"load", "store", "test", "release"}

\* No _update_api_counter call is part-way through its work on provider p.
Quiescent(p) == \A t \in Threads : InCritical(t) => api_name[t] # p

\* The counter after n calls made one after another on a fresh tracker.
SeqRemaining(p, n) == Limit(p) - (n % Limit(p))

\* The caller-side block of spec 4.1: a reset is scheduled and not yet due.
Denied(p) ==
    /\ api_usage[p].reset_time # NoTime
    /\ now < api_usage[p].reset_time

\* C1 (as stated): after exactly `limit` register_calls the provider shows
\* remaining = 0 and a reset-at later than now, and after the (limit+1)-th
\* call it shows remaining = limit again.
C1_AsStated ==
    \A p \in FetchedProviders :
        Quiescent(p) =>
            /\ calls[p] = Limit(p) =>
                   /\ api_usage[p].remaining = 0
                   /\ api_usage[p].reset_time # NoTime
                   /\ api_usage[p].reset_time > now
            /\ calls[p] = Limit(p) + 1 =>
                   api_usage[p].remaining = Limit(p)

C1_StateAfterLimit ==
    \A p \in FetchedProviders :
        Quiescent(p) =>
            /\ calls[p] = Limit(p) =>
                   /\ api_usage[p].remaining = Limit(p)
                   /\ api_usage[p].reset_time # NoTime
            /\ (calls[p] = Limit(p) + 1 /\ Limit(p) >= 2) =>
                   /\ api_usage[p].remaining = Limit(p) - 1
                   /\ api_usage[p].reset_time # NoTime

C1_ResetStep ==
    \A p \in FetchedProviders :
        \* the limit-th call is the one that schedules the first reset ...
        /\ (calls[p] = Limit(p) - 1 /\ api_usage'[p].reset_time # api_usage[p].reset_time) =>
               /\ api_usage'[p].reset_time = now + RESET_WINDOW
               /\ api_usage'[p].reset_time > now'
               /\ api_usage'[p].remaining = Limit(p)
        \* ... no earlier call does, and the (limit+1)-th leaves it alone.
        /\ (calls[p] < Limit(p) - 1 \/ (calls[p] = Limit(p) /\ Limit(p) >= 2)) =>
               api_usage'[p].reset_time = api_usage[p].reset_time

\* C1 (amended): after exactly `limit` register_calls on a fresh tracker the
\* provider shows remaining = limit (the limit-th call reloaded it) and a
\* reset-at of that call's clock + 3600, later than that clock; the
\* (limit+1)-th call (limit >= 2) takes remaining to limit - 1 and leaves
\* reset-at as it is.
C1_Amended == [] C1_StateAfterLimit /\ [][C1_ResetStep]_vars

C1_Witness ==
    \E p \in FetchedProviders :
        /\ Quiescent(p)
        /\ calls[p] = Limit(p) + 1
        /\ api_usage[p].remaining = Limit(p) - 1
        /\ api_usage[p].reset_time # NoTime

C2_ReloadStep ==
    \A t \in Threads :
        (/\ pc[t] = "test"
         /\ pc'[t] # "test"
         /\ api_usage[api_name[t]].remaining <= 0) =>
            /\ api_usage'[api_name[t]].remaining = api_usage[api_name[t]].limit
            /\ api_usage'[api_name[t]].reset_time = now + RESET_WINDOW
            /\ pc'[t] = "release"

C2_BeforeReturn ==
    \A t \in Threads :
        /\ pc[t] = "release" =>
               /\ api_usage[api_name[t]].remaining >= 1
               /\ reset_local[t] # NoTime =>
                      /\ api_usage[api_name[t]].remaining = api_usage[api_name[t]].limit
                      /\ api_usage[api_name[t]].reset_time = reset_local[t]
        \* entry depends on the lock alone, never on the counters
        /\ (pc[t] = "acquire" /\ lock = "free") => ENABLED Acquire(t)

\* C2: a register_call whose decrement brings remaining to zero or below sets
\* reset-at = now + 3600 and restores remaining to the limit before it
\* returns, and register_call is never refused on account of the counters.
C2_ReloadInSameCall == [] C2_BeforeReturn /\ [][C2_ReloadStep]_vars

C2_Witness ==
    \E t \in Threads :
        /\ pc[t] = "release"
        /\ reset_local[t] # NoTime
        /\ api_usage[api_name[t]].remaining = api_usage[api_name[t]].limit
        /\ api_usage[api_name[t]].reset_time = reset_local[t]

\* C3: whatever the interleaving of concurrent register_calls on a provider,
\* once none is in progress the provider's state is the one the same number
\* of calls made one after another leaves: no decrement is lost, also when
\* one of the calls triggers the reset.
C3_NoLostDecrement ==
    \A p \in Providers :
        Quiescent(p) =>
            /\ api_usage[p].remaining = SeqRemaining(p, calls[p])
            /\ api_usage[p].limit = Limit(p)
            /\ (api_usage[p].reset_time # NoTime) <=> (calls[p] >= Limit(p))

\* A decrement racing a reset: one thread is about to reload the counter
\* while another waits at the lock for the same provider, and a call on that
\* provider has completed before.
C3_Witness ==
    \E t \in Threads, u \in Threads :
        /\ t # u
        /\ api_name[t] = api_name[u]
        /\ pc[t] = "test"
        /\ Exhausted(api_name[t])
        /\ pc[u] = "acquire"

\* C4: while the tracker denies a provider, a fetch for it issues no network
\* request.
C4_FailFast ==
    [][\A p \in FetchedProviders : Denied(p) => requests'[p] = requests[p]]_vars

\* C5 (as stated): a fetch that ended in a failure, transport or parse, has
\* not registered a call; a call is registered only by a fetch that returned
\* its quotes.
C5_AsStated ==
    \A t \in Threads :
        (pc[t] = "idle" /\ api_name[t] \in FetchedProviders) =>
            /\ result[t] = "None" => ~registered[t]
            /\ registered[t] => result[t] = "df"

C5_Returned ==
    \A t \in Threads :
        (pc[t] = "idle" /\ api_name[t] \in FetchedProviders) =>
            /\ (result[t] = "None" /\ error[t] = "transport") => ~registered[t]
            /\ (result[t] = "None" /\ error[t] = "parse") => registered[t]
            /\ result[t] = "df" => registered[t]

C5_FailureStep ==
    \A t \in Threads :
        (pc[t] = "status" /\ pc'[t] = "idle") =>
            /\ api_usage' = api_usage
            /\ calls' = calls

\* C5 (amended): a fetch that ends in a transport error (network error,
\* non-2xx status) leaves every provider's quota counters unchanged; the call
\* is registered once the response has passed the status check, so a fetch
\* that ends in a parse error has registered its call, as has a successful one.
C5_Amended == [] C5_Returned /\ [][C5_FailureStep]_vars

C5_Witness ==
    \E t \in Threads, u \in Threads :
        /\ pc[t] = "idle" /\ result[t] = "None" /\ error[t] = "transport"
        /\ ~registered[t]
        /\ pc[u] = "idle" /\ result[u] = "None" /\ error[u] = "parse"
        /\ registered[u]

C6_AtReturn ==
    \A c \in Cycles :
        (lpc[c] = "next" /\ warned[c]) =>
            /\ model.updates = 0
            /\ \A f \in drifted_files : f.gen # model.gen
            /\ base_model = "xgboost_model.pkl"

\* C6: when _predict_and_learn has logged the drift warning and returns, the
\* streaming model is a freshly initialised one (no update yet, an object of
\* its own, not one of the snapshotted ones), and base_model is the object it
\* always was: no step of the learner ever rebinds it.
C6_ResetInSameCall == [] C6_AtReturn /\ [][base_model' = base_model]_vars

C6_Witness ==
    \E c \in Cycles :
        /\ lpc[c] = "next"
        /\ warned[c]
        /\ model = InitOnlineModel(1)
        /\ InitOnlineModel(0) \notin drifted_files
        /\ drifted_files # {}

\* C7: when drift was signalled and the snapshot write failed, the call ends
\* with a fresh streaming model and a fresh detector all the same.
C7_ResetDespiteFailure ==
    \A c \in Cycles :
        (lpc[c] = "idle" /\ lerror[c] = "checkpoint") =>
            /\ model.updates = 0
            /\ drift_detector = FreshDetector

\* C8: the signal of a returned record is Long exactly when the probability
\* is above 0.7, Short exactly when it is below 0.3 and Hold otherwise; at
\* 0.7 and at 0.3 themselves it is Hold, and it is never anything else.
C8_SignalThresholds ==
    (signal_pc = "returned" /\ ~signal_data.empty) =>
        LET pred == signal_inputs.prediction
            sig == signal_data.signal
        IN  /\ sig \in {"Long", "Short", "Hold"}
            /\ sig = "Long" <=> 10 * pred > 7 * PScale
            /\ sig = "Short" <=> 10 * pred < 3 * PScale
            /\ (10 * pred = 7 * PScale \/ 10 * pred = 3 * PScale) => sig = "Hold"

C8_Witness ==
    /\ signal_pc = "returned"
    /\ ~signal_data.empty
    /\ 10 * signal_inputs.prediction = 7 * PScale
    /\ signal_data.signal = "Hold"

\* C9: whatever the two arguments, calculate_kelly_position returns a number
\* in [0, 1], and it returns 0 when win_prob <= 0 or win_loss_ratio <= 0.
C9_KellyInUnitInterval ==
    kelly_pc = "returned" =>
        /\ ~kelly_position.nan
        /\ kelly_position.den > 0
        /\ 0 <= kelly_position.num
        /\ kelly_position.num <= kelly_position.den
        /\ (\/ (kelly_args.win_prob.kind = "num" /\ kelly_args.win_prob.v <= 0)
            \/ (kelly_args.win_loss_ratio.kind = "num"
                  /\ kelly_args.win_loss_ratio.v <= 0))
              => kelly_position.num = 0

\* The upper clamp at work: win_prob above 1 and a result of exactly 1.
C9_Witness ==
    /\ kelly_pc = "returned"
    /\ kelly_args.win_prob.kind = "num"
    /\ kelly_args.win_prob.v > KScale
    /\ kelly_args.win_loss_ratio.kind = "num"
    /\ kelly_args.win_loss_ratio.v > 0
    /\ kelly_position.num = kelly_position.den

IsKellyExample ==
    /\ kelly_pc = "returned"
    /\ kelly_args.win_prob.kind = "num"
    /\ kelly_args.win_loss_ratio.kind = "num"
    /\ 100 * kelly_args.win_prob.v = 55 * KScale
    /\ 10 * kelly_args.win_loss_ratio.v = 15 * KScale

\* C10 (as stated): for win_prob = 0.55 and win_loss_ratio = 1.5 the result
\* is about 0.35 (here: within 0.05 of it).
C10_AsStated ==
    IsKellyExample =>
        /\ 20 * kelly_position.num - 7 * kelly_position.den <= kelly_position.den
        /\ 7 * kelly_position.den - 20 * kelly_position.num <= kelly_position.den

\* C10 (amended): for win_prob = 0.55 and win_loss_ratio = 1.5 the result is
\* 0.25, the value of (0.55*2.5 - 1)/1.5.
C10_Amended ==
    IsKellyExample =>
        /\ ~kelly_position.nan
        /\ 4 * kelly_position.num = kelly_position.den

C10_Witness ==
    /\ IsKellyExample
    /\ 4 * kelly_position.num = kelly_position.den


(***************************************************************************)
(* C11: news_based_risk_adjustment never increases the position: for a    *)
(* position in [0,1], a sentiment score in [0,1] and any number of         *)
(* high-risk events the returned size is at most the position passed in    *)
(* and lies in [0,1], also when the sentiment or calendar lookup fails.    *)
(***************************************************************************)
C11_NeverIncreases ==
    (news_pc = "returned" /\ news_args.position <= NewsScale)
        => /\ ~news_result.nan
           /\ ~FloatLess(Frac(news_args.position, NewsScale), news_result)
           /\ ~FloatLess(news_result, Frac(0, 1))
           /\ ~FloatLess(Frac(1, 1), news_result)

\* A call with bad news and many events, which returned less than it got.
C11_Witness ==
    /\ news_pc = "returned"
    /\ news_args.lookup = "ok"
    /\ news_args.position \in 1..NewsScale
    /\ news_args.avg_score \in 1..(NewsScale - 1)
    /\ news_args.events >= 8
    /\ FloatLess(news_result, Frac(news_args.position, NewsScale))


(***************************************************************************)
(* C12: when one sub-calculation of calculate_total_risk fails, the call   *)
(* still returns a complete report without raising: a failed size is 0     *)
(* and the report names the sub-calculation that failed.                   *)
(***************************************************************************)
C12_CompleteReport ==
    risk_pc = "returned"
        => /\ ~risk_report.raised
           /\ risk_args.kelly = "failed"
                => /\ risk_report.kelly_position = 0
                   /\ "kelly" \in risk_report.failed
           /\ risk_args.atr = "failed" => "atr" \in risk_report.failed
           /\ risk_args.news.lookup = "calendar_raised"
                => /\ ~FloatLess(Frac(0, 1), risk_report.news_adjusted_position)
                   /\ "news" \in risk_report.failed
           /\ (risk_args.entry_price = "given" /\ risk_args.analysis = "failed")
                => "analysis" \in risk_report.failed


(***************************************************************************)
(* C13: a cycle whose data fetch failed ends with the safe default: the    *)
(* record it returns has signal Hold and risk level High.  A failed fetch  *)
(* returns None and stores no row, so generate_signals finds no data.      *)
(***************************************************************************)
C13_HoldWithoutData ==
    (signal_pc = "returned" /\ signal_inputs.outcome = "empty")
        => /\ ~signal_data.empty
           /\ signal_data.signal = "Hold"
           /\ signal_data.risk_level = "High"


\* A closed window has no pending callback and no cycle under way.
C14_Stopped ==
    /\ ~main_alive => (main_pc = "idle" /\ main_timers = 0)
    /\ ~tw_alive => (tw_pc = "idle" /\ tw_timers = 0)

\* Closing happens between cycles; a closed window stays as it is.
C14_StopStep ==
    /\ ~main_alive' =>
          /\ main_timers' = 0
          /\ main_pc' = "idle"
          /\ main_alive => main_pc = "idle"
          /\ ~main_alive => main_labels' = main_labels
    /\ ~tw_alive' =>
          /\ tw_timers' = 0
          /\ tw_pc' = "idle"
          /\ tw_alive => tw_pc = "idle"
          /\ ~tw_alive => (progress' = progress /\ train_btn' = train_btn)

C15_Idempotent == resample_pc = "twice" => again = resampled

\* A table with a gap, in which one bucket merged two different bars.
C15_Witness ==
    /\ resample_pc = "twice"
    /\ resampled # series
    /\ Cardinality(resampled) < Cardinality(series)
    /\ \E r \in resampled : r.volume > 1 /\ r.high > r.low /\ r.open # r.close
    /\ \E m \in 0..(MaxMinute - 1) :
         /\ \A r \in series : BucketOf(r.timestamp) # BucketOf(m)
         /\ \E r \in series : r.timestamp > m


\* The true range of bar j of a table, against the bar before it in time.
C16_TrueRange(table, j) ==
    Max3(table[j].high - table[j].low,
         Abs(table[j].high - table[j - 1].close),
         Abs(table[j].low - table[j - 1].close))

RECURSIVE C16_SumTrueRange(_, _, _)
C16_SumTrueRange(table, from, to) ==
    IF from > to THEN 0
    ELSE C16_TrueRange(table, from) + C16_SumTrueRange(table, from + 1, to)

C16_Stops(table) ==
    LET n == Len(table)
        sum == C16_SumTrueRange(table, n - AtrPeriod + 1, n)
        close == table[n].close
    IN  [kind |-> "ok",
         long |-> Round4(Frac(close * AtrPeriod - Multiplier * sum, AtrPeriod)),
         short |-> Round4(Frac(close * AtrPeriod + Multiplier * sum, AtrPeriod))]

(***************************************************************************)
(* C16: calculate_atr_stop_loss returns close -/+ multiplier*ATR, where    *)
(* close is the most recent bar's close and ATR is the mean, over the      *)
(* last `period` bars, of max(high-low, |high-prev_close|,                 *)
(* |low-prev_close|), prev_close being the close of the bar before in      *)
(* time; hence stop_long <= close <= stop_short.                           *)
(***************************************************************************)
C16_StopsAroundClose ==
    (atr_pc = "returned" /\ Len(atr_table) >= AtrPeriod + 1)
        => /\ atr_stops = C16_Stops(atr_table)
           /\ atr_stops.long <= 10000 * atr_table[Len(atr_table)].close
           /\ 10000 * atr_table[Len(atr_table)].close <= atr_stops.short


\* The step of line 47 for one row: the row's fused probability was taken
\* from the streaming model as it is just before this update, and the
\* update is a single one.
C17_LearnStep ==
    \A c \in Cycles :
        (lpc[c] = "learn" /\ lpc'[c] = "detect")
            => /\ predictions[c] = {model}
               /\ model' = [model EXCEPT !.updates = @ + 1]

\* The step of lines 50-51 for that row: the detector is given the error of
\* the fused probability, which used the model as it was before the update.
C17_DetectStep ==
    \A c \in Cycles :
        (lpc[c] = "detect" /\ lpc'[c] # "detect")
            => residual' = [online |-> [model EXCEPT !.updates = @ - 1],
                            fused |-> TRUE]

(***************************************************************************)
(* C17: in each predict-and-learn step the fused probability is computed   *)
(* from the streaming model as it was before the update, the streaming     *)
(* model then makes exactly one incremental update, and the drift          *)
(* detector is fed |label - fused probability|.                            *)
(***************************************************************************)
C17_PredictThenLearn == [][C17_LearnStep /\ C17_DetectStep]_vars


\* A step that takes the periodic snapshot: it writes online_model_*.pkl
\* or moves the time of the last snapshot.
C18_Snapshot ==
    online_file' # online_file \/ last_train_time' # last_train_time

(***************************************************************************)
(* C18: the periodic snapshot of process_new_data is taken only when more  *)
(* than the interval (one hour) has passed since the last one, at most     *)
(* once per call (it is the call's last step), and it is a pure            *)
(* checkpoint: the streaming model, the drift detector and the batch model *)
(* stay as they are and only the last-snapshot time advances.              *)
(***************************************************************************)
C18_PureCheckpoint ==
    [][C18_Snapshot =>
          /\ now - last_train_time > SAVE_INTERVAL
          /\ last_train_time' = now
          /\ online_file' = {model}
          /\ model' = model
          /\ drift_detector' = drift_detector
          /\ base_model' = base_model
          /\ \E c \in Cycles :
               /\ lpc[c] = "save"
               /\ lpc'[c] = "idle"
               /\ lresult'[c] = "predictions"]_vars

\* A call that learned from a row, took the snapshot and returned.
C18_Witness ==
    /\ online_file = {model}
    /\ model.updates > 0
    /\ last_train_time > SAVE_INTERVAL
    /\ lpc["c1"] = "idle"
    /\ lresult["c1"] = "predictions"


\* Cycle c is inside _predict_and_learn for a row: it has made its
\* learn_one and has not yet finished the row.
C19_MidRow(c) == lpc[c] \in {"detect", "dump", "reset"}

(***************************************************************************)
(* C19: predict-and-learn calls on one OnlineLearner are serialized: the   *)
(* model updates, detector updates and drift resets of two concurrent      *)
(* process_new_data calls never interleave.  While one call is in the      *)
(* middle of a row, every change of the streaming model or of the          *)
(* detector is that call's own step.                                       *)
(***************************************************************************)
C19_Serialized ==
    [][\A c \in Cycles :
          (C19_MidRow(c) /\ (model' # model \/ drift_detector' # drift_detector))
              => lpc'[c] # lpc[c]]_vars


(***************************************************************************)
(* C20: an error while predicting yields a failure that carries no         *)
(* probability, and the cycle's signal then defaults to Hold with risk     *)
(* level High: a generate_signals call in which the prediction raised      *)
(* returns a record that says Hold and High.                               *)
(***************************************************************************)
C20_HoldOnPredictionError ==
    (signal_pc = "returned" /\ signal_inputs.outcome = "raised")
        => /\ signal_data.probability = 0
           /\ signal_data.signal = "Hold"
           /\ signal_data.risk_level = "High"


\* C21: every fetch terminates: a call that has issued its request returns,
\* also when the provider never answers.
C21_EveryFetchReturns == (pc["t1"] # "idle") ~> (pc["t1"] = "idle")

\* The threads that are inside _update_api_counter for provider p and take
\* a step of it.
C22_Registering(p) ==
    {t \in Threads : /\ api_name[t] = p
                     /\ pc[t] \in {"store", "test"}
                     /\ pc'[t] # pc[t]}

\* C22: a register_call for one provider changes only that provider's
\* remaining and reset-at: the entry of every other provider, and every
\* provider's limit, are left as they were.
C22_FrameStep ==
    \A p \in Providers :
        /\ api_usage'[p].limit = api_usage[p].limit
        /\ api_usage'[p] # api_usage[p] => C22_Registering(p) # {}

C22_OnlyOwnProvider == [][C22_FrameStep]_vars

\* A call for binance has just reloaded binance while alphavantage is
\* part-way through its quota.
C22_Witness ==
    \E t \in Threads :
        /\ pc[t] = "release"
        /\ api_name[t] = "binance"
        /\ api_usage["binance"].reset_time # NoTime
        /\ api_usage["alphavantage"].remaining = LimitAlphavantage - 1
        /\ api_usage["alphavantage"].reset_time = NoTime
        /\ api_usage["twelvedata"] = InitApiUsage["twelvedata"]


\* What a reader that takes the lock, or reads between calls, sees of p.
C27_Observable(p) ==
    Quiescent(p) =>
        /\ 1 <= api_usage[p].remaining
        /\ api_usage[p].remaining <= api_usage[p].limit
        /\ (api_usage[p].reset_time = NoTime) <=> (calls[p] < Limit(p))

\* reset-at is never unset again and never moves to an earlier time.
C27_ResetStep ==
    \A p \in Providers : api_usage'[p].reset_time >= api_usage[p].reset_time

\* C27: outside the lock every provider's remaining is within 1..limit,
\* reset-at is unset until the provider's first exhaustion, and reset-at
\* never moves backwards afterwards.
C27_CounterInvariant ==
    [](\A p \in Providers : C27_Observable(p)) /\ [][C27_ResetStep]_vars

\* alphavantage has been exhausted twice, the second time later than the
\* first reset-at could have been set at time zero.
C27_Witness ==
    /\ lock = "free"
    /\ calls["alphavantage"] = 2 * LimitAlphavantage
    /\ api_usage["alphavantage"].remaining = LimitAlphavantage
    /\ api_usage["alphavantage"].reset_time > RESET_WINDOW
    /\ api_usage["binance"].reset_time = NoTime


\* C23: the risk level of a signal is a function of volatility alone: High
\* when volatility > 0.03, Medium when 0.015 < volatility <= 0.03, Low
\* otherwise, whatever the probability, the signal and the regime are.
C23_RiskLevelFromVolatility ==
    (signal_pc = "returned" /\ ~signal_data.empty) =>
        LET vol == signal_inputs.volatility
            level == signal_data.risk_level
        IN  /\ level \in {"High", "Medium", "Low"}
            /\ level = "High" <=> 100 * vol > 3 * VolScale
            /\ level = "Medium" <=>
                   (1000 * vol > 15 * VolScale /\ 100 * vol <= 3 * VolScale)
            /\ level = "Low" <=> 1000 * vol <= 15 * VolScale

\* Volatility exactly 0.03 is reported Medium, next to a Long signal.
C23_Witness ==
    /\ signal_pc = "returned"
    /\ ~signal_data.empty
    /\ 100 * signal_inputs.volatility = 3 * VolScale
    /\ signal_data.risk_level = "Medium"
    /\ signal_data.signal = "Long"

\* C26: detect_market_regime returns Range-bound only when the p-value is
\* below 0.05 and the normalized band width is below 0.1; when either
\* fails, the boundary values included, it returns Trending.
C26_RegimeThresholds ==
    (signal_pc = "returned" /\ ~signal_data.empty) =>
        LET p == signal_inputs.adf_p
            bw == signal_inputs.bandwidth
            regime == signal_data.regime
        IN  /\ regime \in {"Range-bound", "Trending"}
            /\ regime = "Range-bound" <=>
                   (100 * p < 5 * PScale /\ 10 * bw < BwScale)
            /\ (100 * p = 5 * PScale \/ 10 * bw = BwScale) =>
                   regime = "Trending"

\* The p-value is exactly 0.05 with a narrow band: Trending.
C26_Witness ==
    /\ signal_pc = "returned"
    /\ ~signal_data.empty
    /\ 100 * signal_inputs.adf_p = 5 * PScale
    /\ 10 * signal_inputs.bandwidth < BwScale
    /\ signal_data.regime = "Trending"



\* The score the call worked with is a number between 0 and 3.
C24_InRange(x) ==
    /\ ~x.nan
    /\ ~FloatLess(x, Frac(0, 1))
    /\ ~FloatLess(Frac(3, 1), x)

\* C24: the prediction-deviation risk score is
\* min(|current - entry| / (2*volatility), 3.0) and lies in [0, 3]; its level
\* is Low exactly when the score < 0.5, Medium exactly when
\* 0.5 <= score < 1.5, High exactly when score >= 1.5.
C24_ScoreAndLevel ==
    (pred_pc = "returned" /\ ~pred_analysis.empty) =>
        LET x == pred_analysis.score
            level == pred_analysis.risk_level
        IN  /\ C24_InRange(x)
            /\ C24_InRange(pred_analysis.risk_score)
            /\ level = "Low" <=> 2 * x.num < x.den
            /\ level = "Medium" <=> (2 * x.num >= x.den /\ 2 * x.num < 3 * x.den)
            /\ level = "High" <=> 2 * x.num >= 3 * x.den


RECURSIVE C25_Gcd(_, _)
C25_Gcd(m, n) == IF n = 0 THEN m ELSE C25_Gcd(n, m % n)

\* The fraction in lowest terms.
C25_Lowest(x) ==
    LET g == C25_Gcd(x.den, x.num)
    IN  Frac(x.num \div g, x.den \div g)

\* x <= y on two numbers that are not nan.
C25_AtMost(x, y) ==
    /\ ~x.nan
    /\ ~y.nan
    /\ C25_Lowest(x).num * C25_Lowest(y).den
           <= C25_Lowest(y).num * C25_Lowest(x).den

\* C25: calculate_total_risk returns final position = news-adjusted
\* position without an entry price and news-adjusted * (1 - deviation/3.0)
\* with one; either way the final position is in [0, 1] and at most the
\* news-adjusted position, which is at most the Kelly fraction.
C25_FinalPosition ==
    risk_pc = "returned" =>
        LET final == risk_report.final_position
            news == risk_report.news_adjusted_position
            kelly == Frac(KellySizeOf(risk_args), NewsScale)
        IN  /\ ~risk_report.raised
            /\ risk_args.entry_price = "None" => final = news
            /\ risk_args.entry_price = "given" =>
                   /\ ~risk_report.risk_score.nan
                   /\ final = ScaledDown(news, risk_report.risk_score)
            /\ C25_AtMost(Frac(0, 1), final)
            /\ C25_AtMost(final, Frac(1, 1))
            /\ C25_AtMost(final, news)
            /\ C25_AtMost(news, kelly)


\* A learn_one step of a call, on the row the update loop is at.
C28_Learns(c, row) ==
    /\ lpc[c] = "learn"
    /\ lpc'[c] = "detect"
    /\ row = new_data[c][idx[c]]

\* C28: across the process_new_data calls on one OnlineLearner each labeled
\* row is used for a streaming-model update at most once: no call learns a
\* row that an earlier learn_one has already taken.
C28_LearnedOnce ==
    [][\A row \in db : C28_Learns("c1", row) => row \notin learned]_vars

\* Between two cycles of a live main window one run is pending; inside a
\* cycle none is; never more than one.
C29_OnePending ==
    /\ main_timers <= 1
    /\ (main_alive /\ main_pc = "idle") => main_timers = 1
    /\ main_pc = "finally" => main_timers = 0

\* A cycle consumes the pending run and, succeeded or raised, leaves
\* through the finally block, which schedules one.
C29_CycleStep ==
    /\ (main_pc = "idle" /\ main_pc' = "finally") =>
           /\ main_timers' = main_timers - 1
           /\ main_status' \in {"Uygulama calisiyor...", "Hata"}
    /\ (main_pc = "finally" /\ main_pc' = "idle") =>
           main_timers' = main_timers + 1

\* C29: the main update loop keeps exactly one pending cycle: every run of
\* start_update_cycle, succeeded or raised, schedules exactly one next run,
\* so an exception never ends the loop and no second cycle is ever pending.
C29_ExactlyOnePending == []C29_OnePending /\ [][C29_CycleStep]_vars

\* A cycle whose update steps raised has scheduled the next run.
C29_Witness ==
    /\ main_alive
    /\ main_pc = "idle"
    /\ main_status = "Hata"
    /\ main_labels # NoTime
    /\ main_timers = 1


\* No training run is in progress and the window has handled everything
\* the last run put on the queue.
C30_RunOver ==
    /\ tw_alive
    /\ train_pc = "none"
    /\ queue = <<>>
    /\ tw_pc = "idle"

====
